---- MODULE Spec2Model ----
(***************************************************************************)
(* A model of src/analyzer.py: the per-URL analysis orchestrator           *)
(* (analyze_url), the page fetcher, the three reasoning generators, the    *)
(* Q:/A: line parser and the structural analyzers it calls.                *)
(*                                                                         *)
(* Python values are modelled as follows.                                  *)
(*   - a dict is a function from field names to values (DOMAIN d is the    *)
(*     set of its keys);                                                   *)
(*   - None is PyNone and a str is PyStr(s), both records with the fields  *)
(*     ty and v, so that any two values can be compared;                   *)
(*   - a completion text is the sequence of its lines, a line being its    *)
(*     two-character prefix ("Q:", "A:", or "X" for anything else) and     *)
(*     the characters after it;                                            *)
(*   - a parsed document (soup) is the record of the facts the analyzers   *)
(*     query: which of main/article/body exist, the title tag, the         *)
(*     heading levels in document order and the ld+json script blocks.     *)
(***************************************************************************)
EXTENDS Integers, Sequences, FiniteSets, TLC

VARIABLES
    url,            \* the URL under analysis (argument of analyze_url)
    hasKey,         \* GROQ_API_KEY is set (read once at import)
    pc,             \* position of analyze_url
    getAttempts,    \* number of client.get calls issued
    html_content,   \* value returned by fetch_page
    fetchOutcome,   \* what the network did to the GET
    soup,           \* the parsed document
    text_content,   \* main_content.get_text()
    title,          \* the title handed to the prompts and the report
    task,           \* state of each of the three gathered coroutines
    postAttempts,   \* number of client.post calls issued by each generator
    resp,           \* what the reasoning service answered to each request
    result,         \* value each generator returned
    stages,         \* the stages of the pipeline this run has executed
    raised,         \* exception that left analyze_url ("" when none)
    report,         \* value returned by analyze_url (<<>> before it returns)
    qna_text,       \* Q/A parser: the lines of the completion
    qi,             \* Q/A parser: number of lines consumed
    qna_pairs,      \* Q/A parser: the pairs built so far
    script_tags,    \* schema audit: the ld+json blocks of the page
    si,             \* schema audit: number of blocks consumed
    found_schema,   \* schema audit: the two flags
    auditRaised,    \* schema audit: exception that left audit_for_schema
    hd_levels,      \* heading analysis: the heading levels, in document order
    hd_pc,          \* heading analysis: "idle", "call" or "returned"
    hd_findings     \* heading analysis: the findings returned

vars == <<url, hasKey, pc, getAttempts, html_content, fetchOutcome, soup,
          text_content, title, task, postAttempts, resp, result, stages,
          raised, report, qna_text, qi, qna_pairs, script_tags, si,
          found_schema, auditRaised, hd_levels, hd_pc, hd_findings>>

orchVars == <<url, hasKey, pc, getAttempts, html_content, fetchOutcome, soup,
              text_content, title, task, postAttempts, resp, result, stages,
              raised, report>>
qnaVars == <<qna_text, qi, qna_pairs>>
auditVars == <<script_tags, si, found_schema, auditRaised>>
headVars == <<hd_levels, hd_pc, hd_findings>>

\* analyze_heading_structure is not being run on its own
HeadIdle == hd_levels = <<>> /\ hd_pc = "idle" /\ hd_findings = <<>>

----------------------------------------------------------------------------
(* Python values *)

PyNone == [ty |-> "NoneType", v |-> <<>>]
PyStr(s) == [ty |-> "str", v |-> s]
PyList(s) == [ty |-> "list", v |-> s]

\* dict.get(key): the value, or None when the key is absent
Get(d, key) == IF key \in DOMAIN d THEN d[key] ELSE PyNone

\* truthiness of a value: None, "" and [] are falsy
Truthy(x) == x.ty # "NoneType" /\ x.v # <<>>

\* str.strip() on a sequence of characters
RECURSIVE LStrip(_)
LStrip(s) == IF s # <<>> /\ Head(s) = " " THEN LStrip(Tail(s)) ELSE s

RECURSIVE RStrip(_)
RStrip(s) ==
    IF s # <<>> /\ s[Len(s)] = " " THEN RStrip(SubSeq(s, 1, Len(s) - 1)) ELSE s

Strip(s) == RStrip(LStrip(s))

----------------------------------------------------------------------------
(* get_topical_gaps, lines 93-101: the Q:/A: line parser *)

\* the characters after a line's prefix that the model draws from
Rests == {<<>>, <<" ">>, <<"x">>, <<" ", "y", " ">>}

\* a line of the completion: "X" stands for any prefix other than Q: and A:
Lines == [pfx : {"Q:", "A:", "X"}, rest : Rests]

\* line.startswith(p)
StartsWith(line, p) == line.pfx = p

\* line[2:].strip()
Payload(line) == Strip(line.rest)

\* one iteration of the loop of lines 95-99
QnAStep(pairs, line) ==
    IF StartsWith(line, "Q:")
    THEN Append(pairs, [question |-> Payload(line), answer |-> <<>>])
    ELSE IF StartsWith(line, "A:") /\ pairs # <<>>
         THEN [pairs EXCEPT ![Len(pairs)].answer = Payload(line)]
         ELSE pairs

\* the whole loop over the lines of a completion
RECURSIVE ParseFrom(_, _)
ParseFrom(pairs, lines) ==
    IF lines = <<>> THEN pairs
    ELSE ParseFrom(QnAStep(pairs, Head(lines)), Tail(lines))

ParseQnA(lines) == ParseFrom(<<>>, lines)

----------------------------------------------------------------------------
(* audit_for_schema, lines 105-121 *)

\* the @type values the model draws from ("none": the key is absent)
Types == {"Article", "FAQPage", "Other", "none"}

\* an element of an @graph array is a JSON object with its @type (obj), or a
\* scalar
\* the @graph arrays the model draws from
Graphs == {<<>>,
           <<[obj |-> TRUE, type |-> "Article"]>>,
           <<[obj |-> TRUE, type |-> "FAQPage"]>>,
           <<[obj |-> TRUE, type |-> "Article"], [obj |-> TRUE, type |-> "FAQPage"]>>,
           <<[obj |-> TRUE, type |-> "Other"], [obj |-> TRUE, type |-> "Article"]>>,
           <<[obj |-> TRUE, type |-> "FAQPage"], [obj |-> FALSE, type |-> "none"]>>,
           <<[obj |-> FALSE, type |-> "none"], [obj |-> TRUE, type |-> "Article"]>>}

\* the content of one <script type="application/ld+json"> block:
\*   empty      no text at all (tag.string is None)
\*   malformed  text that is not JSON
\*   scalar     JSON that is no object (a number, a string, an array)
\*   object     a JSON object: its own @type and, with hasGraph, its @graph
EmptyBlock == [kind |-> "empty", type |-> "none", hasGraph |-> FALSE, graph |-> <<>>]
MalformedBlock == [kind |-> "malformed", type |-> "none", hasGraph |-> FALSE, graph |-> <<>>]
ScalarBlock == [kind |-> "scalar", type |-> "none", hasGraph |-> FALSE, graph |-> <<>>]
ObjectBlock(t) == [kind |-> "object", type |-> t, hasGraph |-> FALSE, graph |-> <<>>]
GraphBlock(t, g) == [kind |-> "object", type |-> t, hasGraph |-> TRUE, graph |-> g]

Blocks == {EmptyBlock, MalformedBlock, ScalarBlock}
          \cup {ObjectBlock(t) : t \in Types}
          \cup {GraphBlock(t, g) : t \in {"none", "Article", "FAQPage"}, g \in Graphs}

NoSchema == [Article |-> FALSE, FAQPage |-> FALSE]

\* lines 114-118: one element of graph; item.get raises AttributeError on a
\* value that is no object
AuditItem(found, item) ==
    IF ~item.obj THEN [found |-> found, exc |-> "AttributeError"]
    ELSE IF item.type = "Article"
         THEN [found |-> [found EXCEPT !.Article = TRUE], exc |-> ""]
    ELSE IF item.type = "FAQPage"
         THEN [found |-> [found EXCEPT !.FAQPage = TRUE], exc |-> ""]
    ELSE [found |-> found, exc |-> ""]

\* lines 113-118: the loop over graph, left at the first exception
RECURSIVE AuditGraph(_, _)
AuditGraph(found, graph) ==
    IF graph = <<>> THEN [found |-> found, exc |-> ""]
    ELSE LET one == AuditItem(found, Head(graph))
         IN IF one.exc # "" THEN one ELSE AuditGraph(one.found, Tail(graph))

\* lines 111-112: json.loads(tag.string) and data.get('@graph', [data])
AuditLoad(tag) ==
    IF tag.kind = "empty" THEN [exc |-> "TypeError", graph |-> <<>>]
    ELSE IF tag.kind = "malformed" THEN [exc |-> "JSONDecodeError", graph |-> <<>>]
    ELSE IF tag.kind = "scalar" THEN [exc |-> "AttributeError", graph |-> <<>>]
    ELSE [exc |-> "",
          graph |-> IF tag.hasGraph THEN tag.graph
                    ELSE <<[obj |-> TRUE, type |-> tag.type]>>]

\* line 119: the exceptions the try block of the loop body swallows
Caught == {"JSONDecodeError", "AttributeError"}

\* lines 109-120: one iteration of the loop over the script tags; exc is the
\* exception that leaves the function, "" when the iteration completes
AuditTag(found, tag) ==
    LET ld == AuditLoad(tag)
        gr == AuditGraph(found, ld.graph)
    IN IF ld.exc # ""
       THEN [found |-> found, exc |-> IF ld.exc \in Caught THEN "" ELSE ld.exc]
       ELSE [found |-> gr.found, exc |-> IF gr.exc \in Caught THEN "" ELSE gr.exc]

\* the whole function: the flags returned, or the exception raised
RECURSIVE AuditFrom(_, _)
AuditFrom(found, tags) ==
    IF tags = <<>> THEN [found |-> found, exc |-> ""]
    ELSE LET one == AuditTag(found, Head(tags))
         IN IF one.exc # "" THEN one ELSE AuditFrom(one.found, Tail(tags))

audit_for_schema(tags) == AuditFrom(NoSchema, tags)

----------------------------------------------------------------------------
(* The parsed document and the structural analyzers *)

TitleLimit == 65
DescriptionLimit == 160

\* a <title> or <meta name="description"> tag: present or not, whether the
\* tag's .string is a plain string (no string for an empty tag or for one
\* with nested markup), and the length of its trimmed text
Absent == [present |-> FALSE, plain |-> FALSE, len |-> 0]
Tag(plain, len) == [present |-> TRUE, plain |-> plain, len |-> len]

\* a <ul>/<ol> tag: its name and the names of its direct element children
ListTag(name, children) == [name |-> name, children |-> children]

\* lines 24-46; a finding is its kind and what its text embeds: two numbers
\* (a count, or the two heading levels), or a list tag and its bad children;
\* the 50 characters of heading text a hierarchy finding quotes are left out
Finding(kind, a, b) == [kind |-> kind, a |-> a, b |-> b, tag |-> "", children |-> <<>>]

h1_tags(headings) == {i \in 1..Len(headings) : headings[i] = 1}

\* HierarchyFrom with the comparison of line 39 off by one: any increase of
\* the level is reported
RECURSIVE HierarchyFromAnyRise(_, _)
HierarchyFromAnyRise(headings, i) ==
    IF i > Len(headings) THEN <<>>
    ELSE (IF headings[i] > headings[i - 1]
          THEN <<Finding("hierarchy", headings[i - 1], headings[i])>>
          ELSE <<>>) \o HierarchyFromAnyRise(headings, i + 1)

RECURSIVE HierarchyFrom(_, _)
HierarchyFrom(headings, i) ==
    IF i > Len(headings) THEN <<>>
    ELSE (IF headings[i] > headings[i - 1] + 1
          THEN <<Finding("hierarchy", headings[i - 1], headings[i])>>
          ELSE <<>>) \o HierarchyFrom(headings, i + 1)

analyze_heading_structure(headings) ==
    LET n == Cardinality(h1_tags(headings))
        first == IF n = 0 THEN <<Finding("no_h1", 0, 0)>>
                 ELSE IF n > 1 THEN <<Finding("many_h1", n, 0)>>
                 ELSE <<>>
        jumps == IF Len(headings) > 1 THEN HierarchyFrom(headings, 2) ELSE <<>>
        findings == first \o jumps
    IN IF findings = <<>> THEN <<Finding("success", 0, 0)>> ELSE findings

\* lines 48-64
RECURSIVE EmptyBoldFindings(_)
EmptyBoldFindings(n) ==
    IF n = 0 THEN <<>> ELSE <<Finding("empty_bold", 0, 0)>> \o EmptyBoldFindings(n - 1)

InvalidChildren(list_tag) == SelectSeq(list_tag.children, LAMBDA c : c # "li")

RECURSIVE ListFindings(_)
ListFindings(lists) ==
    IF lists = <<>> THEN <<>>
    ELSE (IF InvalidChildren(Head(lists)) # <<>>
          THEN <<[kind |-> "bad_list", a |-> 0, b |-> 0, tag |-> Head(lists).name,
                  children |-> InvalidChildren(Head(lists))]>>
          ELSE <<>>) \o ListFindings(Tail(lists))

audit_semantic_html(doc) ==
    LET findings == EmptyBoldFindings(doc.emptyBold) \o ListFindings(doc.lists)
    IN IF findings = <<>> THEN <<Finding("success", 0, 0)>> ELSE findings

\* lines 66-69: the score is a function of the text alone
analyze_readability(text) == [flesch_reading_ease |-> <<"flesch", text>>]

\* lines 123-156
MetaStatus(tag, limit) ==
    IF ~tag.present THEN [text |-> "", length |-> 0, status |-> "Missing"]
    ELSE [text |-> IF tag.len = 0 THEN "" ELSE "text",
          length |-> tag.len,
          status |-> IF tag.len = 0 THEN "Empty"
                     ELSE IF tag.len > limit THEN "Too long" ELSE "Good"]

analyze_meta_tags(doc) ==
    [title |-> MetaStatus(doc.title, TitleLimit),
     meta_description |-> MetaStatus(doc.description, DescriptionLimit)]

\* json.dumps of a schema document
PyJson(d) == PyStr(<<d>>)

\* lines 200-204
generate_article_schema(doc, u) ==
    PyJson([type |-> "Article",
            headline |-> IF h1_tags(doc.headings) # {} THEN "h1 text"
                         ELSE "No H1 Title Found",
            mainEntityOfPage |-> [type |-> "WebPage", id |-> u]])

\* lines 206-217
Entity(pair) ==
    [type |-> "Question", name |-> pair.question,
     acceptedAnswer |-> [type |-> "Answer", text |-> pair.answer]]

\* MainEntity without the test of line 212: one entity per pair
RECURSIVE MainEntityUnfiltered(_)
MainEntityUnfiltered(pairs) ==
    IF pairs = <<>> THEN <<>>
    ELSE <<Entity(Head(pairs))>> \o MainEntityUnfiltered(Tail(pairs))

RECURSIVE MainEntity(_)
MainEntity(pairs) ==
    IF pairs = <<>> THEN <<>>
    ELSE (IF Head(pairs).question # <<>> /\ Head(pairs).answer # <<>>
          THEN <<Entity(Head(pairs))>> ELSE <<>>) \o MainEntity(Tail(pairs))

generate_faq_schema(pairs) ==
    IF pairs = <<>> THEN PyNone
    ELSE IF MainEntity(pairs) = <<>> THEN PyNone
    ELSE PyJson([type |-> "FAQPage", mainEntity |-> MainEntity(pairs)])

----------------------------------------------------------------------------
(* The three generators: get_topical_gaps, get_content_structure_recommendations,
   get_title_recommendations *)

Calls == <<"topical", "structure", "title">>
CallSet == {"topical", "structure", "title"}

\* what the reasoning service does to one POST: the request fails in
\* transport or times out, comes back with a 4xx/5xx status, or with a body
\* that is no JSON or lacks choices[0].message.content ("badbody"), or with a
\* content that is null ("null") or a string ("ok")
FailKinds == {"transport", "timeout", "status", "badbody"}
Failure(kind) == [kind |-> kind, content |-> PyNone]
Completion(text) == [kind |-> "ok", content |-> PyStr(text)]
NullCompletion == [kind |-> "null", content |-> PyNone]
NoResponse == [kind |-> "none", content |-> PyNone]

MissingKey == [error |-> PyStr(<<"GROQ_API_KEY not found.">>)]
ApiError(e) == PyStr(<<"An error occurred with the LLM API", e>>)

\* lines 88-103: the value returned once the POST has resolved. A null
\* content makes qna_text.strip() raise AttributeError inside the try block.
TopicalResult(r) ==
    IF r.kind = "ok"
    THEN [raw_text |-> r.content,
          structured_qna |-> PyList(ParseQnA(r.content.v))]
    ELSE [error |-> ApiError(IF r.kind = "null" THEN "AttributeError" ELSE r.kind),
          raw_text |-> PyStr(<<>>),
          structured_qna |-> PyList(<<>>)]

\* lines 252-258
StructureResult(r) ==
    IF r.kind \in {"ok", "null"}
    THEN [heading_suggestions |-> r.content]
    ELSE [error |-> ApiError(r.kind), heading_suggestions |-> PyStr(<<>>)]

\* lines 192-198
TitleResult(r) ==
    IF r.kind \in {"ok", "null"}
    THEN [suggestions |-> r.content, error |-> PyNone]
    ELSE [error |-> ApiError(r.kind), suggestions |-> PyStr(<<>>)]

\* Generator without the except clauses: a failed request leaves the
\* generator as an exception
GeneratorUncaught(call, r) ==
    [ret |-> IF call = "topical" THEN TopicalResult(r)
             ELSE IF call = "structure" THEN StructureResult(r)
             ELSE TitleResult(r),
     exc |-> IF r.kind \in FailKinds THEN "HTTPError" ELSE ""]

\* a generator resumed with the service's answer: the dict it returns (ret),
\* or the exception that leaves it (exc); every generator catches Exception
Generator(call, r) ==
    [ret |-> IF call = "topical" THEN TopicalResult(r)
             ELSE IF call = "structure" THEN StructureResult(r)
             ELSE TitleResult(r),
     exc |-> ""]

\* TaskAfter with a retry: a failed request sends the generator back to
\* issue its POST again
TaskAfterRetry(r) == IF r.kind \in FailKinds THEN "created" ELSE "done"

\* after its POST has resolved a generator returns: its coroutine is done,
\* whatever the answer was (no branch of it issues a second request)
TaskAfter(r) == "done"

----------------------------------------------------------------------------
(* analyze_url, lines 285-314: the synchronous analyses and the report *)

\* Recommendations with the Article schema built under the FAQ condition too
RecommendationsGated(doc, u, existing_schema, topical_findings) ==
    [article_schema |->
         IF ~existing_schema.Article
            /\ Truthy(Get(topical_findings, "structured_qna"))
         THEN generate_article_schema(doc, u)
         ELSE PyNone,
     faq_schema |->
         IF ~existing_schema.FAQPage
            /\ Truthy(Get(topical_findings, "structured_qna"))
         THEN generate_faq_schema(topical_findings["structured_qna"].v)
         ELSE PyNone]

\* lines 293-298
Recommendations(doc, u, existing_schema, topical_findings) ==
    [article_schema |->
         IF ~existing_schema.Article THEN generate_article_schema(doc, u)
         ELSE PyNone,
     faq_schema |->
         IF ~existing_schema.FAQPage
            /\ Truthy(Get(topical_findings, "structured_qna"))
         THEN generate_faq_schema(topical_findings["structured_qna"].v)
         ELSE PyNone]

\* lines 301-314
Compile(u, doc, text, ttl, existing_schema, res) ==
    [url |-> u,
     title |-> ttl,
     meta_analysis |-> [tags |-> analyze_meta_tags(doc),
                        llm_suggestions |-> res["title"]],
     structural_integrity |->
         [headings |-> analyze_heading_structure(doc.headings),
          semantics |-> audit_semantic_html(doc)],
     readability |-> analyze_readability(text),
     topical_gaps |-> [raw_text |-> Get(res["topical"], "raw_text")],
     existing_schema |-> existing_schema,
     recommendations |-> Recommendations(doc, u, existing_schema, res["topical"]),
     content_structure |-> res["structure"]]

----------------------------------------------------------------------------
(* The pages and the answers the model draws from *)

URLs == {"https://a.example/", "https://b.example/"}

\* what a page holds besides its main/article/body regions
Contents ==
    {[title |-> Tag(TRUE, 65), description |-> Tag(TRUE, 160),
      headings |-> <<1, 2, 3>>, emptyBold |-> 0, lists |-> <<>>,
      scripts |-> <<ObjectBlock("Article")>>],
     [title |-> Absent, description |-> Absent,
      headings |-> <<>>, emptyBold |-> 1,
      lists |-> <<ListTag("ul", <<"li", "div">>)>>,
      scripts |-> <<>>],
     [title |-> Tag(FALSE, 0), description |-> Tag(TRUE, 161),
      headings |-> <<1, 3>>, emptyBold |-> 0, lists |-> <<ListTag("ol", <<"li">>)>>,
      scripts |-> <<MalformedBlock,
                    GraphBlock("none", <<[obj |-> TRUE, type |-> "Article"],
                                         [obj |-> TRUE, type |-> "FAQPage"]>>)>>],
     [title |-> Tag(TRUE, 66), description |-> Tag(TRUE, 0),
      headings |-> <<2, 1, 1>>, emptyBold |-> 0, lists |-> <<>>,
      scripts |-> <<EmptyBlock>>],
     [title |-> Tag(FALSE, 10), description |-> Absent,
      headings |-> <<1>>, emptyBold |-> 0, lists |-> <<>>,
      scripts |-> <<ObjectBlock("FAQPage")>>]}

Doc(regions, c) ==
    [main |-> regions[1], article |-> regions[2], body |-> regions[3],
     title |-> c.title, description |-> c.description, headings |-> c.headings,
     emptyBold |-> c.emptyBold, lists |-> c.lists, scripts |-> c.scripts]

Docs == {Doc(r, c) : r \in BOOLEAN \X BOOLEAN \X BOOLEAN, c \in Contents}

NoDoc == Doc(<<FALSE, FALSE, FALSE>>,
             [title |-> Absent, description |-> Absent, headings |-> <<>>,
              emptyBold |-> 0, lists |-> <<>>, scripts |-> <<>>])

\* a text: the words it begins with, the document it parses to and, for the
\* message fetch_page builds, the failure it reports
ErrorPrefix == "An error occurred"
Page(prefix, doc) == [prefix |-> prefix, doc |-> doc, err |-> ""]
Pages == {Page(p, d) : p \in {ErrorPrefix, "<!doctype html>"}, d \in Docs}
NoText == [prefix |-> "", doc |-> NoDoc, err |-> ""]

\* the completions the model draws from
Q(rest) == [pfx |-> "Q:", rest |-> rest]
A(rest) == [pfx |-> "A:", rest |-> rest]
X(rest) == [pfx |-> "X", rest |-> rest]

TopicalTexts == {<<Q(<<"x">>), A(<<" ", "y", " ">>), Q(<<"x">>)>>,
                 <<Q(<<" ">>), A(<<"x">>), Q(<<"x">>), A(<<"x">>),
                   Q(<<" ", "y", " ">>), A(<<"x">>)>>,
                 <<X(<<"x">>), Q(<<"x">>), A(<<" ">>)>>}
PlainTexts == {<<X(<<"x">>)>>}

Responses(call) ==
    {Failure(k) : k \in FailKinds} \cup {NullCompletion}
    \cup {Completion(t) : t \in IF call = "topical" THEN TopicalTexts ELSE PlainTexts}

----------------------------------------------------------------------------
(* fetch_page, lines 15-22 *)

\* the outcomes of the GET: a response with a 2xx status, or one of the
\* failures; the first three raise an httpx.RequestError, "status" makes
\* raise_for_status raise an httpx.HTTPStatusError, which is no RequestError
RequestErrors == {"dns", "connect", "timeout"}
FetchFailures == RequestErrors \cup {"status"}

\* the value returned (ret) or the exception that leaves the function (exc)
fetch_page(outcome, page) ==
    IF outcome = "ok" THEN [ret |-> page, exc |-> ""]
    ELSE IF outcome \in RequestErrors
         THEN [ret |-> [prefix |-> ErrorPrefix, doc |-> NoDoc, err |-> outcome],
               exc |-> ""]
    ELSE [ret |-> NoText, exc |-> "HTTPStatusError"]

\* line 265: html_content.startswith("An error occurred")
StartsWithError(text) == text.prefix = ErrorPrefix

----------------------------------------------------------------------------
(* analyze_url, lines 260-283 *)

\* line 269: soup.find('main') or soup.find('article') or soup.body
MainContent(doc) ==
    IF doc.main THEN "main"
    ELSE IF doc.article THEN "article"
    ELSE IF doc.body THEN "body"
    ELSE "None"

\* line 272
TitleOf(doc) ==
    IF doc.title.present
    THEN (IF doc.title.plain THEN PyStr(<<"title text">>) ELSE PyNone)
    ELSE PyStr(<<"No Title Found">>)

MaxAttempts == 3

Idle == [c \in CallSet |-> "idle"]

Init ==
    /\ url \in URLs
    /\ hasKey \in BOOLEAN
    /\ pc = "Start"
    /\ getAttempts = 0
    /\ html_content = NoText
    /\ fetchOutcome = "none"
    /\ soup = NoDoc
    /\ text_content = "None"
    /\ title = PyNone
    /\ task = Idle
    /\ postAttempts = [c \in CallSet |-> 0]
    /\ resp = [c \in CallSet |-> NoResponse]
    /\ result = [c \in CallSet |-> <<>>]
    /\ stages = {}
    /\ raised = ""
    /\ report = <<>>
    /\ qna_text = <<>>
    /\ qi = 0
    /\ qna_pairs = <<>>
    /\ script_tags = <<>>
    /\ si = 0
    /\ found_schema = NoSchema
    /\ auditRaised = ""
    /\ HeadIdle

\* line 263, up to the await: fetch_page issues its one GET
SendGet ==
    /\ pc = "Start"
    /\ getAttempts < MaxAttempts
    /\ pc' = "Fetching"
    /\ getAttempts' = getAttempts + 1
    /\ stages' = stages \cup {"fetch"}
    /\ UNCHANGED <<url, hasKey, html_content, fetchOutcome, soup, text_content,
                   title, task, postAttempts, resp, result, raised, report>>
    /\ UNCHANGED <<qnaVars, auditVars, headVars>>

\* lines 263-266: fetch_page returns or raises, and the orchestrator tests
\* what it returned
FetchReturn(outcome, page) ==
    LET out == fetch_page(outcome, page)
    IN /\ pc = "Fetching"
       /\ fetchOutcome' = outcome
       /\ IF out.exc # ""
          THEN /\ pc' = "Raised"
               /\ raised' = out.exc
               /\ UNCHANGED <<html_content, report>>
          ELSE /\ html_content' = out.ret
               /\ raised' = raised
               /\ IF StartsWithError(out.ret)
                  THEN /\ pc' = "Failed"
                       /\ report' = [url |-> url, error |-> out.ret]
                  ELSE /\ pc' = "Parsing"
                       /\ report' = report
       /\ UNCHANGED <<url, hasKey, getAttempts, soup, text_content, title, task,
                      postAttempts, resp, result, stages>>
       /\ UNCHANGED <<qnaVars, auditVars, headVars>>

FetchOk == \E page \in Pages : FetchReturn("ok", page)
FetchFail == \E outcome \in FetchFailures : FetchReturn(outcome, NoText)

\* lines 268-283, up to the await: the document is parsed, the main content,
\* the title and the h1 text are read and the three coroutines are handed to
\* asyncio.gather. main_content.get_text() raises AttributeError on None.
Parse ==
    LET doc == html_content.doc
    IN /\ pc = "Parsing"
       /\ soup' = doc
       /\ stages' = stages \cup {"parse"}
       /\ IF MainContent(doc) = "None"
          THEN /\ pc' = "Raised"
               /\ raised' = "AttributeError"
               /\ UNCHANGED <<text_content, title, task>>
          ELSE /\ pc' = "Reasoning"
               /\ raised' = raised
               /\ text_content' = MainContent(doc)
               /\ title' = TitleOf(doc)
               /\ task' = [c \in CallSet |-> "created"]
       /\ UNCHANGED <<url, hasKey, getAttempts, html_content, fetchOutcome,
                      postAttempts, resp, result, report>>
       /\ UNCHANGED <<qnaVars, auditVars, headVars>>

\* the event loop starts the gathered coroutines in the order they were
\* given; each runs to its first suspension: the POST, or (lines 73-74,
\* 160-161, 221-222) its return when the key is missing
StartCall(k) ==
    LET c == Calls[k]
    IN /\ pc = "Reasoning"
       /\ task[c] = "created"
       /\ \A j \in 1..(k - 1) : task[Calls[j]] # "created"
       /\ postAttempts[c] < MaxAttempts
       /\ stages' = stages \cup {"reasoning"}
       /\ IF hasKey
          THEN /\ postAttempts' = [postAttempts EXCEPT ![c] = @ + 1]
               /\ task' = [task EXCEPT ![c] = "pending"]
               /\ result' = result
          ELSE /\ result' = [result EXCEPT ![c] = MissingKey]
               /\ task' = [task EXCEPT ![c] = "done"]
               /\ postAttempts' = postAttempts
       /\ UNCHANGED <<url, hasKey, pc, getAttempts, html_content, fetchOutcome,
                      soup, text_content, title, resp, raised, report>>
       /\ UNCHANGED <<qnaVars, auditVars, headVars>>

\* a pending POST resolves, in any order among the three, and its generator
\* runs to its return; the loop polls the network only once no coroutine is
\* left to start
Resolve(c, r) ==
    LET out == Generator(c, r)
    IN /\ pc = "Reasoning"
       /\ task[c] = "pending"
       /\ \A d \in CallSet : task[d] # "created"
       /\ resp' = [resp EXCEPT ![c] = r]
       /\ IF out.exc # ""
          THEN /\ pc' = "Raised"
               /\ raised' = out.exc
               /\ UNCHANGED <<result, task>>
          ELSE /\ result' = [result EXCEPT ![c] = out.ret]
               /\ task' = [task EXCEPT ![c] = TaskAfter(r)]
               /\ UNCHANGED <<pc, raised>>
       /\ UNCHANGED <<url, hasKey, getAttempts, html_content, fetchOutcome, soup,
                      text_content, title, postAttempts, stages, report>>
       /\ UNCHANGED <<qnaVars, auditVars, headVars>>

\* lines 277-283: gather returns once every coroutine has returned
Join ==
    /\ pc = "Reasoning"
    /\ \A c \in CallSet : task[c] = "done"
    /\ pc' = "Analyzing"
    /\ stages' = stages \cup {"joined"}
    /\ UNCHANGED <<url, hasKey, getAttempts, html_content, fetchOutcome, soup,
                   text_content, title, task, postAttempts, resp, result, raised,
                   report>>
    /\ UNCHANGED <<qnaVars, auditVars, headVars>>

\* lines 285-314: the synchronous analyses, the recommendations and the
\* report; an exception of audit_for_schema leaves analyze_url
Analyze ==
    LET audit == audit_for_schema(soup.scripts)
    IN /\ pc = "Analyzing"
       /\ IF audit.exc # ""
          THEN /\ pc' = "Raised"
               /\ raised' = audit.exc
               /\ stages' = stages \cup {"structural"}
               /\ report' = report
          ELSE /\ pc' = "Done"
               /\ raised' = raised
               /\ stages' = stages \cup {"structural", "synthesis"}
               /\ report' = Compile(url, soup, text_content, title, audit.found, result)
       /\ UNCHANGED <<url, hasKey, getAttempts, html_content, fetchOutcome, soup,
                      text_content, title, task, postAttempts, resp, result>>
       /\ UNCHANGED <<qnaVars, auditVars, headVars>>

Next ==
    \/ SendGet
    \/ FetchOk
    \/ FetchFail
    \/ Parse
    \/ \E k \in 1..3 : StartCall(k)
    \/ \E c \in CallSet : \E r \in Responses(c) : Resolve(c, r)
    \/ Join
    \/ Analyze

Spec == Init /\ [][Next]_vars

----------------------------------------------------------------------------
(* The Q:/A: parser on its own, one line of the completion per step *)

MaxLines == 3

RECURSIVE SeqsUpTo(_, _)
SeqsUpTo(S, n) ==
    IF n = 0 THEN {<<>>}
    ELSE LET shorter == SeqsUpTo(S, n - 1)
         IN shorter \cup {Append(q, x) : q \in {t \in shorter : Len(t) = n - 1}, x \in S}

OrchIdle ==
    /\ url = "https://a.example/"
    /\ hasKey = TRUE
    /\ pc = "Start"
    /\ getAttempts = 0
    /\ html_content = NoText
    /\ fetchOutcome = "none"
    /\ soup = NoDoc
    /\ text_content = "None"
    /\ title = PyNone
    /\ task = Idle
    /\ postAttempts = [c \in CallSet |-> 0]
    /\ resp = [c \in CallSet |-> NoResponse]
    /\ result = [c \in CallSet |-> <<>>]
    /\ stages = {}
    /\ raised = ""
    /\ report = <<>>

InitQnA ==
    /\ OrchIdle
    /\ qna_text \in SeqsUpTo(Lines, MaxLines)
    /\ qi = 0
    /\ qna_pairs = <<>>
    /\ script_tags = <<>>
    /\ si = 0
    /\ found_schema = NoSchema
    /\ auditRaised = ""
    /\ HeadIdle

\* lines 95-99: the loop body on the next line
ParseLine ==
    /\ qi < Len(qna_text)
    /\ qna_pairs' = QnAStep(qna_pairs, qna_text[qi + 1])
    /\ qi' = qi + 1
    /\ UNCHANGED <<qna_text, orchVars, auditVars, headVars>>

NextQnA == ParseLine

SpecQnA == InitQnA /\ [][NextQnA]_vars

----------------------------------------------------------------------------
(* audit_for_schema on its own, one script block per step *)

MaxScripts == 2

InitAudit ==
    /\ OrchIdle
    /\ qna_text = <<>>
    /\ qi = 0
    /\ qna_pairs = <<>>
    /\ script_tags \in SeqsUpTo(Blocks, MaxScripts)
    /\ si = 0
    /\ found_schema = NoSchema
    /\ auditRaised = ""
    /\ HeadIdle

\* lines 109-120: the loop body on the next script tag
AuditStep ==
    LET one == AuditTag(found_schema, script_tags[si + 1])
    IN /\ si < Len(script_tags)
       /\ auditRaised = ""
       /\ found_schema' = one.found
       /\ auditRaised' = one.exc
       /\ si' = si + 1
       /\ UNCHANGED <<script_tags, orchVars, qnaVars, headVars>>

NextAudit == AuditStep

SpecAudit == InitAudit /\ [][NextAudit]_vars

----------------------------------------------------------------------------
(* analyze_heading_structure on its own *)

MaxHeadings == 3

\* the levels of h1..h6 (line 27)
HeadingLevels == 1..6

InitHeadings ==
    /\ OrchIdle
    /\ qna_text = <<>>
    /\ qi = 0
    /\ qna_pairs = <<>>
    /\ script_tags = <<>>
    /\ si = 0
    /\ found_schema = NoSchema
    /\ auditRaised = ""
    /\ hd_levels \in SeqsUpTo(HeadingLevels, MaxHeadings)
    /\ hd_pc = "call"
    /\ hd_findings = <<>>

\* lines 24-46: the function is called on the headings of the page
AnalyzeHeadings ==
    /\ hd_pc = "call"
    /\ hd_findings' = analyze_heading_structure(hd_levels)
    /\ hd_pc' = "returned"
    /\ UNCHANGED <<hd_levels, orchVars, qnaVars, auditVars>>

NextHeadings == AnalyzeHeadings

SpecHeadings == InitHeadings /\ [][NextHeadings]_vars

----------------------------------------------------------------------------
(* Claims *)

Terminal == pc \in {"Done", "Failed", "Raised"}
FetchFailed == fetchOutcome \in FetchFailures
ErrorOnlyReport == DOMAIN report = {"url", "error"}

\* C1: for every failure outcome of the GET (DNS, connection, timeout, bad
\* status) fetch_page returns an error value carrying a diagnostic message and
\* analyze_url ends in Failed with an error report, never by an exception.
C1_FetchFailureIsAValue ==
    FetchFailed =>
        /\ raised = ""
        /\ pc = "Failed"
        /\ ErrorOnlyReport
        /\ report["error"] = html_content
        /\ StartsWithError(html_content)
        /\ html_content.err = fetchOutcome

\* C2: whenever the fetch fails the run goes directly from Fetching to Failed,
\* the report has exactly the fields url and error, and no parsing, analyzer,
\* reasoning request or schema synthesis happens in that run.
C2_FailFast ==
    FetchFailed =>
        /\ pc = "Failed"
        /\ ErrorOnlyReport
        /\ report["url"] = url
        /\ stages = {"fetch"}
        /\ \A c \in CallSet : postAttempts[c] = 0 /\ task[c] = "idle"

\* The part of C2 the code keeps: a run that is in Failed returned the
\* error-only report and executed nothing but the fetch.
FailedIsShortCircuit ==
    pc = "Failed" =>
        /\ ErrorOnlyReport
        /\ report["url"] = url
        /\ stages = {"fetch"}
        /\ \A c \in CallSet : postAttempts[c] = 0 /\ task[c] = "idle"

\* The part of C1 the code keeps: a DNS, connection or timeout failure ends
\* in Failed with the message.
RequestErrorIsAValue ==
    fetchOutcome \in RequestErrors =>
        pc = "Failed" /\ raised = "" /\ html_content.err = fetchOutcome

\* the slot of the report that holds a generator's result
Slot(c) ==
    IF c = "topical" THEN report["topical_gaps"]
    ELSE IF c = "structure" THEN report["content_structure"]
    ELSE report["meta_analysis"]["llm_suggestions"]

\* the field of a generator's result that holds the completion
TextField(c) ==
    IF c = "topical" THEN "raw_text"
    ELSE IF c = "structure" THEN "heading_suggestions"
    ELSE "suggestions"

Succeeded(c) == resp[c].kind = "ok"
NonError(d) == ~Truthy(Get(d, "error"))
AllDone == \A c \in CallSet : task[c] = "done"

\* C3: the three reasoning calls are all issued before any of them completes,
\* synthesis starts only after all three have resolved, and under every
\* interleaving and every combination of outcomes a failed call neither ends
\* the run nor changes what the other calls return: every call the service
\* answered keeps its own, non-error completion in its result and in the
\* final report (so with exactly one failure the other two are intact).
C3_IndependentCalls ==
    /\ (hasKey /\ \E c \in CallSet : task[c] = "done") =>
           \A d \in CallSet : task[d] \in {"pending", "done"} /\ postAttempts[d] = 1
    /\ pc \in {"Analyzing", "Done"} => AllDone
    /\ (pc = "Raised" /\ "reasoning" \in stages) => "joined" \in stages
    /\ \A c \in CallSet :
           (task[c] = "done" /\ Succeeded(c)) =>
               /\ NonError(result[c])
               /\ Get(result[c], TextField(c)) = resp[c].content
    /\ pc = "Done" =>
           \A c \in CallSet :
               Succeeded(c) =>
                   /\ NonError(Slot(c))
                   /\ Get(Slot(c), TextField(c)) = resp[c].content

\* a finished run in which exactly the topical-gap request failed
C3_Witness ==
    /\ pc = "Done"
    /\ resp["topical"].kind = "transport"
    /\ Succeeded("structure")
    /\ Succeeded("title")
    /\ Get(Slot("structure"), "heading_suggestions") = resp["structure"].content

\* an explicit error marker: an error field that holds a message
HasErrorMarker(d) == "error" \in DOMAIN d /\ Truthy(d["error"])

\* C4: without the API credential each generator resolves to an error outcome
\* and issues no request, and in the Done report every reasoning-dependent
\* field (meta_analysis.llm_suggestions, topical_gaps, content_structure)
\* carries an explicit error marker.
C4_MissingKeyMarksEveryField ==
    ~hasKey =>
        /\ \A c \in CallSet : postAttempts[c] = 0
        /\ \A c \in CallSet : task[c] = "done" => HasErrorMarker(result[c])
        /\ pc = "Done" => \A c \in CallSet : HasErrorMarker(Slot(c))

\* The part of C4 the code keeps: no request is issued, every generator
\* returns the error, and the two slots that hold a generator's own result
\* carry it.
MissingKeyDegrades ==
    ~hasKey =>
        /\ \A c \in CallSet : postAttempts[c] = 0
        /\ \A c \in CallSet : task[c] = "done" => result[c] = MissingKey
        /\ pc = "Done" =>
               /\ HasErrorMarker(Slot("structure"))
               /\ HasErrorMarker(Slot("title"))
               /\ Slot("topical") = [raw_text |-> PyNone]

\* the fields a generator's result has when its request failed
FailureFields(c) == DOMAIN Generator(c, Failure("transport")).ret

IsStr(x) == x.ty = "str"

\* C5: a generator's result has the same set of fields in all three cases
\* (success, request failure, missing credential), so that in every Done
\* report meta_analysis.llm_suggestions has both suggestions and error,
\* content_structure has heading_suggestions as a string, and the topical-gap
\* result has both raw_text (a string) and structured_qna.
C5_SameFieldsInEveryCase ==
    /\ \A c \in CallSet : task[c] = "done" => DOMAIN result[c] = FailureFields(c)
    /\ pc = "Done" =>
           /\ {"suggestions", "error"} \subseteq DOMAIN Slot("title")
           /\ "heading_suggestions" \in DOMAIN Slot("structure")
           /\ IsStr(Get(Slot("structure"), "heading_suggestions"))
           /\ {"raw_text", "structured_qna"} \subseteq DOMAIN result["topical"]
           /\ IsStr(Get(result["topical"], "raw_text"))

FullReportFields ==
    {"url", "title", "meta_analysis", "structural_integrity", "readability",
     "topical_gaps", "existing_schema", "recommendations", "content_structure"}

\* C7: once the fetch has returned markup the run terminates in Done with a
\* full report and never by an exception, for every shape of the document
\* (any of main, article, body, title, h1 absent), the main content being the
\* first match among main, article, body. (Stated for the pages that do not
\* begin with the words the orchestrator takes for a fetch error.)
C7_MarkupAlwaysEndsDone ==
    (fetchOutcome = "ok" /\ ~StartsWithError(html_content)) =>
        /\ raised = ""
        /\ Terminal => pc = "Done"
        /\ pc = "Done" => DOMAIN report = FullReportFields
        /\ pc \in {"Reasoning", "Analyzing", "Done"} =>
               text_content = MainContent(html_content.doc)

\* The part of C7 the code keeps: a missing title, a title with no plain
\* string and a missing h1 never end the run; only a page with none of main,
\* article, body, or with an empty ld+json block, does.
AbsenceTolerated ==
    pc = "Raised" /\ fetchOutcome = "ok" =>
        \/ raised = "AttributeError" /\ MainContent(soup) = "None"
        \/ raised = "TypeError" /\ \E i \in 1..Len(soup.scripts) : soup.scripts[i] = EmptyBlock

\* the fields of a report that hold the deterministic findings
Deterministic(rep) ==
    [title |-> rep["title"],
     tags |-> rep["meta_analysis"]["tags"],
     structural_integrity |-> rep["structural_integrity"],
     readability |-> rep["readability"],
     existing_schema |-> rep["existing_schema"],
     article_schema |-> rep["recommendations"]["article_schema"]]

\* the report of a run over the same markup and URL whose three generators
\* returned res
RunReport(u, text, res) ==
    LET doc == text.doc
    IN Compile(u, doc, MainContent(doc), TitleOf(doc),
               audit_for_schema(doc.scripts).found, res)

\* three other runs: no credential, every request failed, every request
\* answered
OtherRuns ==
    {[c \in CallSet |-> MissingKey],
     [c \in CallSet |-> Generator(c, Failure("status")).ret],
     [c \in CallSet |->
         Generator(c, Completion(<<Q(<<"x">>), A(<<"x">>)>>)).ret]}

\* C8: the deterministic fields of the report (title, meta_analysis.tags,
\* structural_integrity, readability, existing_schema and
\* recommendations.article_schema) are those of any other run over the same
\* markup and URL, whatever the three reasoning calls returned, failed with,
\* or the order they completed in.
C8_DeterministicFindings ==
    pc = "Done" =>
        \A res \in OtherRuns :
            Deterministic(report) = Deterministic(RunReport(url, html_content, res))

\* a finished run with one answered and one failed request whose report
\* holds a generated Article schema
C8_Witness ==
    /\ pc = "Done"
    /\ Succeeded("topical")
    /\ resp["title"].kind = "status"
    /\ ~report["existing_schema"].Article
    /\ IsStr(report["recommendations"]["article_schema"])

\* the parser awaits an answer after k lines: some Q: line among them has
\* had no A: line after it
PairOpen(k) ==
    \E j \in 1..k :
        /\ StartsWith(qna_text[j], "Q:")
        /\ \A m \in (j + 1)..k : ~StartsWith(qna_text[m], "A:")

\* the latest pair has been given an answer that is not empty
Answered == qna_pairs # <<>> /\ qna_pairs[Len(qna_pairs)].answer # <<>>

\* C9: the parser is a two-state machine over the lines: a Q: line appends a
\* pair with an empty answer; an A: line fills the answer of the last pair
\* only while that pair is open (its Q: line has had no A: line yet); every
\* other line, and an A: line with no open pair (before any Q: line, or after
\* the latest pair's answer has been filled), leaves the pairs unchanged.
\* (An A: line after an A: line that left the answer empty may do either.)
C9_TwoStateParser ==
    [][qi' = qi + 1 =>
          LET line == qna_text[qi + 1]
              filled == [qna_pairs EXCEPT ![Len(qna_pairs)].answer = Payload(line)]
          IN IF StartsWith(line, "Q:")
             THEN qna_pairs' = Append(qna_pairs,
                                      [question |-> Payload(line), answer |-> <<>>])
             ELSE IF StartsWith(line, "A:") /\ PairOpen(qi)
                  THEN qna_pairs' = filled
             ELSE IF StartsWith(line, "A:") /\ qna_pairs # <<>> /\ ~Answered
                  THEN qna_pairs' \in {qna_pairs, filled}
             ELSE qna_pairs' = qna_pairs]_vars

\* The part of C9 the code keeps: one pair per Q: line, in line order, with
\* that line's question, and only the last pair is ever written to.
QnAPairsFollowQLines ==
    LET qs == {j \in 1..qi : StartsWith(qna_text[j], "Q:")}
    IN /\ Len(qna_pairs) = Cardinality(qs)
       /\ \A j \in qs :
              qna_pairs[Cardinality({m \in qs : m <= j})].question
                  = Payload(qna_text[j])
       /\ \A n \in 1..Len(qna_pairs) :
              qna_pairs[n].answer # <<>> =>
                  \E j \in 1..qi : /\ StartsWith(qna_text[j], "A:")
                                   /\ Payload(qna_text[j]) = qna_pairs[n].answer

\* the objects of a block the detection is about: the single object, or the
\* elements of its @graph array
WellFormed(tag) ==
    /\ tag.kind = "object"
    /\ tag.hasGraph => \A i \in 1..Len(tag.graph) : tag.graph[i].obj
TypesOf(tag) ==
    IF tag.hasGraph THEN {tag.graph[i].type : i \in 1..Len(tag.graph)}
    ELSE {tag.type}
SomeObjectHas(t) ==
    \E i \in 1..Len(script_tags) :
        WellFormed(script_tags[i]) /\ t \in TypesOf(script_tags[i])

\* the sequences of blocks C10 is about: every @graph is an array of objects
InClaimDomain ==
    \A i \in 1..Len(script_tags) :
        script_tags[i].kind = "object" => WellFormed(script_tags[i])

\* C10: over any sequence of ld+json blocks (a single object, a document with
\* an @graph array, malformed JSON, an empty block, non-object JSON)
\* audit_for_schema never raises, a bad block is skipped and the scan goes on
\* with the next block, a flag once true is never reset, and at the end
\* Article (resp. FAQPage) is true iff some object of some well-formed block
\* has that @type.
C10_TotalAndMonotone ==
    /\ [](InClaimDomain => auditRaised = "")
    /\ []((InClaimDomain /\ si = Len(script_tags)) =>
              /\ found_schema.Article <=> SomeObjectHas("Article")
              /\ found_schema.FAQPage <=> SomeObjectHas("FAQPage"))
    /\ [][/\ found_schema.Article => found_schema'.Article
          /\ found_schema.FAQPage => found_schema'.FAQPage]_vars

\* The part of C10 the code keeps: the flags only ever go from false to true,
\* and a scan that is not ended by an exception sets exactly the flags of the
\* types found; the one exception is the TypeError of an empty block.
AuditKeptPart ==
    /\ auditRaised \in {"", "TypeError"}
    /\ auditRaised = "TypeError" => script_tags[si] = EmptyBlock
    /\ (si = Len(script_tags) /\ auditRaised = "" /\ InClaimDomain) =>
           /\ found_schema.Article <=> SomeObjectHas("Article")
           /\ found_schema.FAQPage <=> SomeObjectHas("FAQPage")

\* the pairs the topical-gap generator returned (none when it returned no list)
ParsedPairs == Get(result["topical"], "structured_qna").v

\* a pair with a non-empty question and a non-empty answer
Populated(pair) == pair.question # <<>> /\ pair.answer # <<>>

\* the positions of the fully-populated pairs, and the k-th of them
PopulatedAt == {i \in 1..Len(ParsedPairs) : Populated(ParsedPairs[i])}
NthPopulated(k) ==
    CHOOSE i \in PopulatedAt : Cardinality({j \in PopulatedAt : j <= i}) = k

\* C11: in every Done report recommendations.faq_schema is null when the page
\* already has FAQPage markup or when no parsed pair has both a non-empty
\* question and a non-empty answer (also after a failed topical-gap call);
\* otherwise it is a FAQPage document whose mainEntity holds exactly one
\* Question/Answer entity per fully-populated pair, in pair order, and none
\* for a pair with an empty question or answer.
C11_FaqSchema ==
    pc = "Done" =>
        LET faq == report["recommendations"]["faq_schema"]
        IN IF report["existing_schema"].FAQPage \/ PopulatedAt = {}
           THEN faq = PyNone
           ELSE /\ IsStr(faq)
                /\ Len(faq.v) = 1
                /\ faq.v[1].type = "FAQPage"
                /\ Len(faq.v[1].mainEntity) = Cardinality(PopulatedAt)
                /\ \A k \in 1..Cardinality(PopulatedAt) :
                       LET e == faq.v[1].mainEntity[k]
                           pair == ParsedPairs[NthPopulated(k)]
                       IN /\ e.type = "Question"
                          /\ e.name = pair.question
                          /\ e.acceptedAnswer.type = "Answer"
                          /\ e.acceptedAnswer.text = pair.answer

\* a finished run whose completion parsed to three pairs, the first with an
\* empty question, and whose report holds a FAQ schema of two entities
C11_Witness ==
    /\ pc = "Done"
    /\ Len(ParsedPairs) = 3
    /\ PopulatedAt = {2, 3}
    /\ IsStr(report["recommendations"]["faq_schema"])
    /\ Len(report["recommendations"]["faq_schema"].v[1].mainEntity) = 2

\* a finished run whose pairs are fully populated and whose schema is null
\* because the page already has FAQPage markup
C11_NullWitness ==
    /\ pc = "Done"
    /\ report["existing_schema"].FAQPage
    /\ PopulatedAt # {}
    /\ report["recommendations"]["faq_schema"] = PyNone

\* a finished run after a failed topical-gap call, and one whose pairs all
\* lack an answer: the schema is null
C11_FailedWitness ==
    /\ pc = "Done"
    /\ hasKey
    /\ ~report["existing_schema"].FAQPage
    /\ \/ resp["topical"].kind = "transport"
       \/ Succeeded("topical") /\ ParsedPairs # <<>> /\ PopulatedAt = {}
    /\ report["recommendations"]["faq_schema"] = PyNone

\* the positions of the findings of one kind
FindingsOf(kind) == {k \in 1..Len(hd_findings) : hd_findings[k].kind = kind}

\* the number of h1 headings, and the positions whose level skips one
H1Count == Cardinality({i \in 1..Len(hd_levels) : hd_levels[i] = 1})
Jumps == {i \in 2..Len(hd_levels) : hd_levels[i] > hd_levels[i - 1] + 1}

\* the k-th element of a set of positions
Nth(S, k) == CHOOSE i \in S : Cardinality({j \in S : j <= i}) = k

\* C12: for every sequence of heading levels the result holds exactly one
\* missing-h1 error iff there is no h1, exactly one warning with the count iff
\* there is more than one h1, then exactly one hierarchy error per adjacent
\* pair with level[i] > level[i-1] + 1, naming both levels and in document
\* order (none for a decrease or a +1 step), and a single success finding iff
\* nothing else was produced; the result is never empty.
C12_HeadingFindings ==
    hd_pc = "returned" =>
        /\ hd_findings # <<>>
        /\ \A k \in 1..Len(hd_findings) :
               hd_findings[k].kind \in {"no_h1", "many_h1", "hierarchy", "success"}
        /\ Cardinality(FindingsOf("no_h1")) = (IF H1Count = 0 THEN 1 ELSE 0)
        /\ Cardinality(FindingsOf("many_h1")) = (IF H1Count > 1 THEN 1 ELSE 0)
        /\ \A k \in FindingsOf("many_h1") : hd_findings[k].a = H1Count
        /\ FindingsOf("no_h1") \cup FindingsOf("many_h1") \subseteq {1}
        /\ Cardinality(FindingsOf("hierarchy")) = Cardinality(Jumps)
        /\ \A k \in 1..Cardinality(Jumps) :
               LET f == hd_findings[Nth(FindingsOf("hierarchy"), k)]
                   i == Nth(Jumps, k)
               IN f.a = hd_levels[i - 1] /\ f.b = hd_levels[i]
        /\ Cardinality(FindingsOf("success"))
               = (IF H1Count = 1 /\ Jumps = {} THEN 1 ELSE 0)
        /\ FindingsOf("success") # {} => Len(hd_findings) = 1
        /\ hd_levels = <<1, 2, 3>> => FindingsOf("hierarchy") = {}
        /\ hd_levels = <<1, 3>> => hd_findings = <<Finding("hierarchy", 1, 3)>>

\* the call on two h1 followed by an h3: the warning, then the 1-to-3 jump
C12_Witness ==
    /\ hd_pc = "returned"
    /\ hd_levels = <<1, 1, 3>>
    /\ hd_findings = <<Finding("many_h1", 2, 0), Finding("hierarchy", 1, 3)>>

\* C13: a run ends in Failed only if the fetch failed: whenever the fetcher
\* obtained a response body, whatever its text (a page beginning with the
\* words "An error occurred" included), the orchestrator goes on to Parsing
\* and never returns the error-only report.
C13_FailedOnlyOnFetchFailure ==
    /\ pc = "Failed" => FetchFailed
    /\ fetchOutcome = "ok" => ~ErrorOnlyReport /\ "error" \notin DOMAIN report

\* The part of C13 the code keeps: a page that does not begin with those
\* words is never taken for a fetch failure, and a run in Failed either had a
\* request error or fetched a page that begins with them.
FailedOnMessagePrefix ==
    /\ (fetchOutcome = "ok" /\ ~StartsWithError(html_content)) => pc # "Failed"
    /\ pc = "Failed" =>
           \/ fetchOutcome \in RequestErrors
           \/ fetchOutcome = "ok" /\ StartsWithError(html_content)

====
